---- MODULE Spec2Model ----
(***************************************************************************)
(* The upload handler of soju-upload-handler-aws: request validation, key  *)
(* allocation with existence probes, and the write to the bucket.          *)
(* Strings the code takes apart (file names, header values, the allow      *)
(* list) are sequences of one-character strings, so that split, slice and  *)
(* includes are computed as JavaScript computes them.                      *)
(***************************************************************************)
EXTENDS Integers, Sequences, FiniteSets

(***************************************************************************)
(* String literals of the source.                                          *)
(***************************************************************************)
MIME_application_pdf == <<"a", "p", "p", "l", "i", "c", "a", "t", "i", "o", "n", "/", "p", "d", "f">>
MIME_audio_aac == <<"a", "u", "d", "i", "o", "/", "a", "a", "c">>
MIME_audio_mp4 == <<"a", "u", "d", "i", "o", "/", "m", "p", "4">>
MIME_audio_mpeg == <<"a", "u", "d", "i", "o", "/", "m", "p", "e", "g">>
MIME_audio_ogg == <<"a", "u", "d", "i", "o", "/", "o", "g", "g">>
MIME_audio_webm == <<"a", "u", "d", "i", "o", "/", "w", "e", "b", "m">>
MIME_image_apng == <<"i", "m", "a", "g", "e", "/", "a", "p", "n", "g">>
MIME_image_gif == <<"i", "m", "a", "g", "e", "/", "g", "i", "f">>
MIME_image_jpeg == <<"i", "m", "a", "g", "e", "/", "j", "p", "e", "g">>
MIME_image_png == <<"i", "m", "a", "g", "e", "/", "p", "n", "g">>
MIME_image_webp == <<"i", "m", "a", "g", "e", "/", "w", "e", "b", "p">>
MIME_text_plain == <<"t", "e", "x", "t", "/", "p", "l", "a", "i", "n">>
MIME_video_mp4 == <<"v", "i", "d", "e", "o", "/", "m", "p", "4">>
MIME_video_ogg == <<"v", "i", "d", "e", "o", "/", "o", "g", "g">>
MIME_video_webm == <<"v", "i", "d", "e", "o", "/", "w", "e", "b", "m">>
OCTET_STREAM == <<"a", "p", "p", "l", "i", "c", "a", "t", "i", "o", "n", "/", "o", "c", "t", "e", "t", "-", "s", "t", "r", "e", "a", "m">>
FORM_URLENCODED == <<"a", "p", "p", "l", "i", "c", "a", "t", "i", "o", "n", "/", "x", "-", "w", "w", "w", "-", "f", "o", "r", "m", "-", "u", "r", "l", "e", "n", "c", "o", "d", "e", "d">>
EXT_bin == <<"b", "i", "n">>
FILENAME_TOKEN == <<"f", "i", "l", "e", "n", "a", "m", "e", "=", "\"">>
UPLOAD_PREFIX == <<"u", "p", "l", "o", "a", "d", "-">>
HTTPS == <<"h", "t", "t", "p", "s", ":", "/", "/">>
S3_DOMAIN == <<".", "s", "3", ".", "a", "m", "a", "z", "o", "n", "a", "w", "s", ".", "c", "o", "m">>
HEX_DIGITS == <<"0", "1", "2", "3", "4", "5", "6", "7", "8", "9", "a", "b", "c", "d", "e", "f">>
DEC_DIGITS == <<"0", "1", "2", "3", "4", "5", "6", "7", "8", "9">>

\* const ALLOWED_MIME_TYPES = new Set([...])
ALLOWED_MIME_TYPES ==
    { MIME_application_pdf, MIME_audio_aac, MIME_audio_mp4, MIME_audio_mpeg,
      MIME_audio_ogg, MIME_audio_webm, MIME_image_apng, MIME_image_gif,
      MIME_image_jpeg, MIME_image_png, MIME_image_webp, MIME_text_plain,
      MIME_video_mp4, MIME_video_ogg, MIME_video_webm }

\* const MAX_FILE_SIZE = 50 * 1024 * 1024
MAX_FILE_SIZE == 50 * 1024 * 1024

\* Resource.ExistingStorage.name: the bucket linked to the function (dev stage)
ExistingStorageName == <<"t", "m", "p", "-", "s", "o", "j", "u", "-", "u", "p", "l", "o", "a", "d", "-", "h", "a", "n", "d", "l", "e", "r", "-", "a", "w", "s", "-", "d", "e", "v">>

(***************************************************************************)
(* JavaScript values and string operations.                                *)
(***************************************************************************)
\* undefined where a string is expected: no string is this sequence, since the
\* elements of a string are single characters
undefined == <<"undefined">>

\* undefined where an object is expected
undefinedObject == [undefined |-> TRUE]

\* 1-based position of the first occurrence of sep in s, 0 when there is none
FirstOccurrence(s, sep) ==
    LET hits == { i \in 1..(Len(s) - Len(sep) + 1) : SubSeq(s, i, i + Len(sep) - 1) = sep }
    IN  IF hits = {} THEN 0 ELSE CHOOSE i \in hits : \A j \in hits : i <= j

\* String.prototype.split(sep) with a non-empty separator
RECURSIVE Split(_, _)
Split(s, sep) ==
    LET i == FirstOccurrence(s, sep)
    IN  IF i = 0
        THEN <<s>>
        ELSE <<SubSeq(s, 1, i - 1)>> \o Split(SubSeq(s, i + Len(sep), Len(s)), sep)

\* Array.prototype.pop(): the last element, undefined for an empty array
Pop(array) == IF array = <<>> THEN undefined ELSE array[Len(array)]

\* array[index] with a 0-based index: undefined when out of range
At(array, index) == IF index + 1 \in 1..Len(array) THEN array[index + 1] ELSE undefined

\* String.prototype.slice(start, end): negative indexes count from the end
Slice(s, start, end) ==
    LET clamp(k) == IF k < 0
                    THEN (IF Len(s) + k < 0 THEN 0 ELSE Len(s) + k)
                    ELSE (IF k > Len(s) THEN Len(s) ELSE k)
        from == clamp(start)
        to == clamp(end)
    IN  IF from >= to THEN <<>> ELSE SubSeq(s, from + 1, to)

\* Array.prototype.includes(x)
Includes(array, x) == \E k \in 1..Len(array) : array[k] = x

\* Number.prototype.toString() of a non-negative integer: its decimal digits
RECURSIVE NumberToString(_)
NumberToString(n) ==
    IF n < 10 THEN <<DEC_DIGITS[n + 1]>>
    ELSE NumberToString(n \div 10) \o <<DEC_DIGITS[(n % 10) + 1]>>

\* Buffer.prototype.toString("hex"): two lowercase hex digits per byte
RECURSIVE ToHex(_)
ToHex(bytes) ==
    IF bytes = <<>> THEN <<>>
    ELSE <<HEX_DIGITS[(bytes[1] \div 16) + 1], HEX_DIGITS[(bytes[1] % 16) + 1]>> \o ToHex(Tail(bytes))

(***************************************************************************)
(* Bounds of the model.                                                    *)
(***************************************************************************)
\* crypto.randomBytes draws one of MaxSeed + 1 byte strings
MaxSeed == 1

\* Date.now() returns MaxNow - 1 or MaxNow
MaxNow == 10

(***************************************************************************)
(* filenameWithRandomSuffix                                                *)
(***************************************************************************)
\* crypto.randomBytes(size): the byte strings the generator may return
randomBytes(size) ==
    { [k \in 1..size |-> (seed * 97 + k * 43) % 256] : seed \in 0..MaxSeed }

\* const filenameWithRandomSuffix = (filename) => ..., with the bytes drawn
filenameWithRandomSuffix(filename, bytes) ==
    LET randomString == ToHex(bytes)
        ext == Pop(Split(filename, <<".">>))
        name == IF ext # undefined THEN Slice(filename, 0, 0 - Len(ext) - 1) ELSE filename
        obfuscated == name \o <<"-">> \o randomString
        newFilename == IF ext # undefined THEN obfuscated \o <<".">> \o ext ELSE obfuscated
    IN  newFilename

(***************************************************************************)
(* The request: event.headers, event.body, event.isBase64Encoded.          *)
(* A body is kept by its length, not byte by byte: chars is the number of  *)
(* characters of the string (ASCII text, or base64 digits with pad         *)
(* trailing '='), magic the signature its bytes start with.                *)
(***************************************************************************)
\* Buffer.from(text, "utf-8").toString("base64"): 4 digits per 3 bytes, padded
Base64Encode(text) ==
    [ chars |-> 4 * ((text.chars + 2) \div 3),
      pad |-> (3 - (text.chars % 3)) % 3,
      magic |-> text.magic ]

\* Buffer.from(digits, "base64"): 3 bytes per 4 digits, less the padding
Base64Decode(digits) ==
    [ byteLength |-> (digits.chars \div 4) * 3 - digits.pad,
      magic |-> digits.magic ]

\* Buffer.from(event.isBase64Encoded ? body : Buffer.from(body, "utf-8").toString("base64"), "base64")
decodeBody(event) ==
    Base64Decode(IF event.isBase64Encoded THEN event.body ELSE Base64Encode(event.body))

\* fileTypeFromBuffer(buffer): the type the leading bytes identify, or undefined
fileTypeFromBuffer(buffer) ==
    IF buffer.magic = "png" /\ buffer.byteLength >= 8
    THEN [mime |-> MIME_image_png, ext |-> <<"p", "n", "g">>]
    ELSE IF buffer.magic = "zip" /\ buffer.byteLength >= 4
    THEN [mime |-> <<"a", "p", "p", "l", "i", "c", "a", "t", "i", "o", "n", "/", "z", "i", "p">>,
          ext |-> <<"z", "i", "p">>]
    ELSE undefinedObject

\* a value used as a condition: undefined and "" are falsy
Truthy(s) == s # undefined /\ s # <<>>

\* if (body == null)
MissingBody(event) == event.body = undefinedObject

\* mutant of TooLarge: the limit itself is rejected
TooLargeInclusive(buffer) == buffer.byteLength >= MAX_FILE_SIZE

\* if (buffer.byteLength > MAX_FILE_SIZE)
TooLarge(buffer) == buffer.byteLength > MAX_FILE_SIZE

\* contentType?.split("/")[1]?.split("+")[0] ?? "bin"
declaredExtension(contentType) ==
    IF contentType = undefined THEN EXT_bin
    ELSE LET subtype == At(Split(contentType, <<"/">>), 1)
         IN  IF subtype = undefined THEN EXT_bin ELSE At(Split(subtype, <<"+">>), 0)

\* the condition under which the declared content type is replaced by the sniffed one
NeedsSniffing(contentType) ==
    \/ contentType = undefined
    \/ contentType = OCTET_STREAM
    \/ contentType = FORM_URLENCODED

\* contentType and extension after the sniffing block
resolveContentType(event, buffer) ==
    LET contentType == event.headers["content-type"]
        detectedType == fileTypeFromBuffer(buffer)
    IN  IF NeedsSniffing(contentType)
        THEN [ contentType |-> IF detectedType = undefinedObject THEN OCTET_STREAM ELSE detectedType.mime,
               extension |-> IF detectedType = undefinedObject THEN EXT_bin ELSE detectedType.ext ]
        ELSE [ contentType |-> contentType, extension |-> declaredExtension(contentType) ]

\* event.headers["content-disposition"].split('filename="')[1]: undefined when the
\* header holds no filename=" token
dispositionTail(disposition) == At(Split(disposition, FILENAME_TOKEN), 1)

\* the file name: [threw |-> TRUE] when .split is called on undefined
resolveFilename(event, extension, now) ==
    LET disposition == event.headers["content-disposition"]
    IN  IF Truthy(disposition)
        THEN IF dispositionTail(disposition) = undefined
             THEN [threw |-> TRUE, message |-> "Cannot read properties of undefined (reading 'split')"]
             ELSE [threw |-> FALSE, filename |-> At(Split(dispositionTail(disposition), <<"\"">>), 0)]
        ELSE [threw |-> FALSE,
              filename |-> UPLOAD_PREFIX \o NumberToString(now) \o <<".">> \o extension]

\* (process.env.USERNAME_ALLOW_LIST ?? "").split(",")
allowedUsernames(environment) ==
    Split(IF environment.USERNAME_ALLOW_LIST = undefined THEN <<>> ELSE environment.USERNAME_ALLOW_LIST,
          <<",">>)

\* mutant of UsernameAllowed: includes on the unsplit string
UsernameAllowedSubstring(environment, username) ==
    FirstOccurrence(IF environment.USERNAME_ALLOW_LIST = undefined THEN <<>> ELSE environment.USERNAME_ALLOW_LIST,
                    username) # 0

\* allowedUsernames.includes(username)
UsernameAllowed(environment, username) == Includes(allowedUsernames(environment), username)

\* mutant of ContentTypeAllowed: any image type passes
ContentTypeAllowedAnyImage(contentType) ==
    Len(contentType) >= 6 /\ SubSeq(contentType, 1, 6) = <<"i", "m", "a", "g", "e", "/">>

\* ALLOWED_MIME_TYPES.has(file.contentType)
ContentTypeAllowed(contentType) == contentType \in ALLOWED_MIME_TYPES

\* body: "ERR: Missing `username`"; the back quotes of the source are left out,
\* a TLA+ string cannot hold them
MISSING_USERNAME == "ERR: Missing username"

\* a response without headers
Reply(statusCode, text, arg, tail) ==
    [statusCode |-> statusCode, body |-> [text |-> text, arg |-> arg, tail |-> tail], headers |-> undefinedObject]

\* mutant of ApplicationError: the message of the exception is dropped
ApplicationErrorWithoutMessage(message) == Reply(500, "ERR: Application error: ", <<>>, "")

\* catch (error) { return { statusCode: 500, body: `ERR: Application error: ${error.message}` } }
ApplicationError(message) == Reply(500, "ERR: Application error: ", <<>>, message)

\* mutant of Validate: the identity gates come first, as in the older variant
\* of the handler
ValidateIdentityFirst(event, environment, now) ==
    LET username == event.headers["soju-username"] IN
    IF username = undefined
    THEN [kind |-> "return", response |-> Reply(400, MISSING_USERNAME, <<>>, "")]
    ELSE IF ~UsernameAllowed(environment, username)
    THEN [kind |-> "return", response |-> Reply(403, "ERR: Invalid username", <<>>, "")]
    ELSE IF MissingBody(event)
    THEN [kind |-> "return", response |-> Reply(400, "ERR: Missing body", <<>>, "")]
    ELSE
    LET buffer == decodeBody(event) IN
    IF TooLarge(buffer)
    THEN [kind |-> "return", response |-> Reply(413, "ERR: File too large", <<>>, "")]
    ELSE
    LET resolved == resolveContentType(event, buffer)
        named == resolveFilename(event, resolved.extension, now)
    IN
    IF named.threw
    THEN [kind |-> "return", response |-> ApplicationError(named.message)]
    ELSE
    LET file == [ filename |-> named.filename,
                  contentType |-> resolved.contentType,
                  content |-> buffer,
                  encoding |-> "utf-8" ]
    IN
    IF ~ContentTypeAllowed(file.contentType)
    THEN [kind |-> "return",
          response |-> Reply(400, "ERR: Content type ", file.contentType, " is not allowed"),
          file |-> file]
    ELSE [kind |-> "continue", file |-> file]

\* the handler from its entry to the call of uniqueFilenameForBucket: the response
\* it returns, or the file it goes on with
Validate(event, environment, now) ==
    IF MissingBody(event)
    THEN [kind |-> "return", response |-> Reply(400, "ERR: Missing body", <<>>, "")]
    ELSE
    LET buffer == decodeBody(event) IN
    IF TooLarge(buffer)
    THEN [kind |-> "return", response |-> Reply(413, "ERR: File too large", <<>>, "")]
    ELSE
    LET resolved == resolveContentType(event, buffer)
        named == resolveFilename(event, resolved.extension, now)
        username == event.headers["soju-username"]
    IN
    IF named.threw
    THEN [kind |-> "return", response |-> ApplicationError(named.message)]
    ELSE
    LET file == [ filename |-> named.filename,
                  contentType |-> resolved.contentType,
                  content |-> buffer,
                  encoding |-> "utf-8" ]
    IN
    IF username = undefined
    THEN [kind |-> "return", response |-> Reply(400, MISSING_USERNAME, <<>>, ""), file |-> file]
    ELSE IF ~UsernameAllowed(environment, username)
    THEN [kind |-> "return", response |-> Reply(403, "ERR: Invalid username", <<>>, ""), file |-> file]
    ELSE IF ~ContentTypeAllowed(file.contentType)
    THEN [kind |-> "return",
          response |-> Reply(400, "ERR: Content type ", file.contentType, " is not allowed"),
          file |-> file]
    ELSE [kind |-> "continue", file |-> file]

(***************************************************************************)
(* Requests and configuration the model draws from.                        *)
(***************************************************************************)
\* decoded body sizes: empty, small, exactly the limit, one byte over it
BodySizes == {0, 8, MAX_FILE_SIZE, MAX_FILE_SIZE + 1}

\* what the body's bytes start with
Magics == {"png", "zip", "none"}

\* body: string, delivered as text
TextBodies == { [chars |-> n, pad |-> 0, magic |-> m] : n \in BodySizes, m \in Magics }

\* body: string, delivered base64-encoded by the dispatcher
Base64Bodies == { Base64Encode(text) : text \in TextBodies }

\* headers["content-type"]
ContentTypeHeaders ==
    { undefined, OCTET_STREAM, FORM_URLENCODED, MIME_image_png, MIME_text_plain,
      <<"i", "m", "a", "g", "e", "/", "s", "v", "g", "+", "x", "m", "l">>,
      <<"j", "u", "n", "k">> }

\* headers["content-disposition"]
DispositionHeaders ==
    { undefined, <<>>,
      <<"i", "n", "l", "i", "n", "e">>,
      <<"a", "t", "t", "a", "c", "h", "m", "e", "n", "t", ";", " ">> \o FILENAME_TOKEN \o <<"a", ".", "b", "\"">>,
      FILENAME_TOKEN \o <<"a", "b", "\"">>,
      FILENAME_TOKEN \o <<"a", ".", "b", ".", "c", "\"">> }

\* headers["soju-username"]
UsernameHeaders == { undefined, <<>>, <<"a", "l">>, <<"b", "o">> }

\* the events the dispatcher may deliver
Events ==
    { [ headers |-> [ h \in {"content-type", "content-disposition", "soju-username"} |->
                        CASE h = "content-type" -> ct
                          [] h = "content-disposition" -> cd
                          [] h = "soju-username" -> un ],
        body |-> b.body,
        isBase64Encoded |-> b.isBase64Encoded ] :
      ct \in ContentTypeHeaders, cd \in DispositionHeaders, un \in UsernameHeaders,
      b \in { [body |-> undefinedObject, isBase64Encoded |-> FALSE] }
            \cup { [body |-> t, isBase64Encoded |-> FALSE] : t \in TextBodies }
            \cup { [body |-> d, isBase64Encoded |-> TRUE] : d \in Base64Bodies } }

\* process.env.USERNAME_ALLOW_LIST
AllowLists == { undefined, <<>>, <<"a", "l">>, <<"b", "o", ",", "a", "l">> }

\* process.env.CDN_DOMAIN
CdnDomains == { undefined, <<>>, <<"c", "d", "n", ".", "i", "o">> }

\* Date.now()
Clock == { MaxNow - 1, MaxNow }

(***************************************************************************)
(* State.                                                                  *)
(***************************************************************************)
VARIABLES
    env,                \* process.env of the function
    bucket,             \* the bucket, as far as a call has looked at it: key -> object,
                        \* or undefinedObject for a key seen to be free
    live,               \* the invocations of this run
    pc,                 \* where each invocation stands
    event,              \* the event each invocation was given
    file,               \* the file record it built
    attemptsRemaining,  \* the argument of the current call of uniqueFilenameForBucket
    frames,             \* newFilename of each active call of uniqueFilenameForBucket
    newFilename,        \* the key uniqueFilenameForBucket returned
    calls,              \* the blob-store calls it has issued, with their outcomes
    response            \* what it returned

vars == <<env, bucket, live, pc, event, file, attemptsRemaining, frames, newFilename, calls, response>>

\* an object that was in the bucket before the run
ExistingObject == [Body |-> [byteLength |-> 1, magic |-> "none"], ContentType |-> OCTET_STREAM, by |-> 0]

\* whether the bucket is known to hold an object under key
Holds(key) == key \in DOMAIN bucket /\ bucket[key] # undefinedObject

\* the bucket with key set to object
BucketWith(key, object) ==
    [k \in DOMAIN bucket \cup {key} |-> IF k = key THEN object ELSE bucket[k]]

\* calls[i] with the outcome of its last call filled in
Answered(i, result) ==
    [calls[i] EXCEPT ![Len(calls[i])] = [calls[i][Len(calls[i])] EXCEPT !.result = result]]

Init ==
    /\ env \in [USERNAME_ALLOW_LIST : AllowLists, CDN_DOMAIN : CdnDomains]
    /\ bucket = [k \in {} |-> undefinedObject]
    /\ live = {1}
    /\ pc = [i \in live |-> "idle"]
    /\ event = [i \in live |-> undefinedObject]
    /\ file = [i \in live |-> undefinedObject]
    /\ attemptsRemaining = [i \in live |-> 0]
    /\ frames = [i \in live |-> <<>>]
    /\ newFilename = [i \in live |-> undefined]
    /\ calls = [i \in live |-> <<>>]
    /\ response = [i \in live |-> undefinedObject]

(***************************************************************************)
(* The handler.                                                            *)
(***************************************************************************)
\* export const upload = async (event) => { try { ... validation ... }: up to the
\* first call of uniqueFilenameForBucket(file.filename, bucket), attemptsRemaining = 3
uploadEvent(i, e, now) ==
    /\ LET outcome == Validate(e, env, now) IN
       /\ event' = [event EXCEPT ![i] = e]
       /\ IF outcome.kind = "return"
          THEN /\ response' = [response EXCEPT ![i] = outcome.response]
               /\ file' = [file EXCEPT ![i] = IF "file" \in DOMAIN outcome THEN outcome.file ELSE undefinedObject]
               /\ pc' = [pc EXCEPT ![i] = "done"]
               /\ UNCHANGED attemptsRemaining
          ELSE /\ file' = [file EXCEPT ![i] = outcome.file]
               /\ attemptsRemaining' = [attemptsRemaining EXCEPT ![i] = 3]
               /\ pc' = [pc EXCEPT ![i] = "allocate"]
               /\ UNCHANGED response
    /\ UNCHANGED <<env, bucket, live, frames, newFilename, calls>>

\* the handler on any event the dispatcher may deliver, at any time of the clock
upload(i) ==
    /\ pc[i] = "idle"
    /\ \E e \in Events, now \in Clock : uploadEvent(i, e, now)

\* mutant of PutObjectCommand: the write goes to the first candidate drawn, not
\* to the one uniqueFilenameForBucket returned
PutObjectCommandFirstCandidate(i, key) ==
    [ op |-> "PutObject", Key |-> frames[i][1], Body |-> file[i].content,
      ContentType |-> file[i].contentType, result |-> "pending",
      replaced |-> -1, message |-> "" ]

\* new PutObjectCommand({Bucket, Key: newFilename, Body: file.content, ContentType: file.contentType, ...})
\* (replaced and message are filled in when the call is answered: who had stored
\* the object the write replaced, -1 for none, 0 for an object older than the run;
\* the message of the exception the call raised)
PutObjectCommand(i, key) ==
    [ op |-> "PutObject", Key |-> key, Body |-> file[i].content,
      ContentType |-> file[i].contentType, result |-> "pending",
      replaced |-> -1, message |-> "" ]

\* mutant of afterThrow: the exception unwinds to the outermost call, whose catch
\* returns the first candidate
afterThrowOutermost(callers) ==
    IF callers # <<>>
    THEN [kind |-> "return", value |-> callers[1]]
    ELSE [kind |-> "throw"]

\* where an exception thrown by a call of uniqueFilenameForBucket ends up: the call
\* was made inside the try block of the calling frame, whose catch returns that
\* frame's newFilename; with no calling frame it reaches the handler's catch
afterThrow(callers) ==
    IF callers # <<>>
    THEN [kind |-> "return", value |-> callers[Len(callers)]]
    ELSE [kind |-> "throw"]

\* uniqueFilenameForBucket returns key to the handler, which sends the PutObject
Allocated(i, key) ==
    /\ newFilename' = [newFilename EXCEPT ![i] = key]
    /\ pc' = [pc EXCEPT ![i] = "put"]

\* uniqueFilenameForBucket(filename, bucketName, attemptsRemaining): entry of a
\* call, up to the HeadObject it sends
uniqueFilenameForBucket(i) ==
    /\ pc[i] = "allocate"
    /\ IF attemptsRemaining[i] = 0
       THEN \* throw new Error("Could not generate a unique filename")
            LET landing == afterThrow(frames[i]) IN
            IF landing.kind = "return"
            THEN /\ Allocated(i, landing.value)
                 /\ calls' = [calls EXCEPT ![i] = Append(@, PutObjectCommand(i, landing.value))]
                 /\ UNCHANGED <<frames, response>>
            ELSE /\ response' = [response EXCEPT ![i] = ApplicationError("Could not generate a unique filename")]
                 /\ pc' = [pc EXCEPT ![i] = "done"]
                 /\ UNCHANGED <<frames, newFilename, calls>>
       ELSE \E bytes \in randomBytes(4) :
              LET candidate == filenameWithRandomSuffix(file[i].filename, bytes) IN
              /\ frames' = [frames EXCEPT ![i] = Append(@, candidate)]
              /\ calls' = [calls EXCEPT ![i] =
                             Append(@, [op |-> "HeadObject", Key |-> candidate, result |-> "pending"])]
              /\ pc' = [pc EXCEPT ![i] = "head"]
              /\ UNCHANGED <<newFilename, response>>
    /\ UNCHANGED <<env, bucket, live, event, file, attemptsRemaining>>

\* await client.send(new HeadObjectCommand(...)) resolves: the object exists, and
\* the function calls itself with attemptsRemaining - 1
HeadObjectFound(i) ==
    /\ pc[i] = "head"
    /\ LET key == frames[i][Len(frames[i])] IN
       /\ key \in DOMAIN bucket => bucket[key] # undefinedObject
       /\ bucket' = IF key \in DOMAIN bucket THEN bucket ELSE BucketWith(key, ExistingObject)
    /\ calls' = [calls EXCEPT ![i] = Answered(i, "exists")]
    /\ attemptsRemaining' = [attemptsRemaining EXCEPT ![i] = @ - 1]
    /\ pc' = [pc EXCEPT ![i] = "allocate"]
    /\ UNCHANGED <<env, live, event, file, frames, newFilename, response>>

\* await client.send(new HeadObjectCommand(...)) rejects, with NotFound when there
\* is no such object, or with any other error of the service; catch { return newFilename }
HeadObjectThrows(i) ==
    /\ pc[i] = "head"
    /\ LET key == frames[i][Len(frames[i])] IN
       \E error \in {"NotFound", "AccessDenied"} :
         /\ error = "NotFound" => ~Holds(key)
         /\ bucket' = IF error = "NotFound" THEN BucketWith(key, undefinedObject) ELSE bucket
         /\ calls' = [calls EXCEPT ![i] = Append(Answered(i, error), PutObjectCommand(i, key))]
         /\ Allocated(i, key)
    /\ UNCHANGED <<env, live, event, file, attemptsRemaining, frames, response>>

\* mutant of publicDomain: an empty CDN_DOMAIN is taken for a host
publicDomainEmptyHost(environment) ==
    IF environment.CDN_DOMAIN # undefined
    THEN environment.CDN_DOMAIN
    ELSE ExistingStorageName \o S3_DOMAIN

\* process.env.CDN_DOMAIN && process.env.CDN_DOMAIN !== "" ? process.env.CDN_DOMAIN
\*   : `${Resource.ExistingStorage.name}.s3.amazonaws.com`
publicDomain(environment) ==
    IF Truthy(environment.CDN_DOMAIN) /\ environment.CDN_DOMAIN # <<>>
    THEN environment.CDN_DOMAIN
    ELSE ExistingStorageName \o S3_DOMAIN

\* `https://${domain}/${newFilename}`
publicUrl(environment, key) == HTTPS \o publicDomain(environment) \o <<"/">> \o key

\* return { statusCode: 201, body: `SUCCESS: ${url}`, headers: { location: url } }
Created(url) ==
    [statusCode |-> 201, body |-> [text |-> "SUCCESS: ", arg |-> url, tail |-> ""], headers |-> [location |-> url]]

\* await client.send(new PutObjectCommand(...)) resolves: the object is stored,
\* in the place of the one the key held, if any
PutObjectDone(i) ==
    /\ pc[i] = "put"
    /\ LET command == calls[i][Len(calls[i])] IN
       /\ bucket' = BucketWith(command.Key,
                               [Body |-> command.Body, ContentType |-> command.ContentType, by |-> i])
       /\ calls' = [calls EXCEPT ![i] =
                      [Answered(i, "ok") EXCEPT ![Len(calls[i])].replaced =
                         IF Holds(command.Key) THEN bucket[command.Key].by ELSE -1]]
    /\ response' = [response EXCEPT ![i] = Created(publicUrl(env, newFilename[i]))]
    /\ pc' = [pc EXCEPT ![i] = "done"]
    /\ UNCHANGED <<env, live, event, file, attemptsRemaining, frames, newFilename>>

\* the exceptions a PutObject may raise: error.name and error.message
PutObjectErrors ==
    { [name |-> "AccessDenied", message |-> "Access Denied"],
      [name |-> "SlowDown", message |-> "Please reduce your request rate."] }

\* await client.send(new PutObjectCommand(...)) rejects: the handler's catch answers 500
PutObjectThrows(i) ==
    /\ pc[i] = "put"
    /\ \E error \in PutObjectErrors :
         /\ calls' = [calls EXCEPT ![i] =
                        [Answered(i, error.name) EXCEPT ![Len(calls[i])].message = error.message]]
         /\ response' = [response EXCEPT ![i] = ApplicationError(error.message)]
    /\ pc' = [pc EXCEPT ![i] = "done"]
    /\ UNCHANGED <<env, bucket, live, event, file, attemptsRemaining, frames, newFilename>>

Next ==
    \/ \E i \in live : upload(i)
    \/ \E i \in live : uniqueFilenameForBucket(i)
    \/ \E i \in live : HeadObjectFound(i)
    \/ \E i \in live : HeadObjectThrows(i)
    \/ \E i \in live : PutObjectDone(i)
    \/ \E i \in live : PutObjectThrows(i)

Spec == Init /\ [][Next]_vars

(***************************************************************************)
(* One invocation whose blob-store calls all return or raise.  The events   *)
(* are those with no body or 8 bytes of png as text, a content type that is *)
(* absent, allowed or not allowed, and a user that is absent, listed or not. *)
(***************************************************************************)
FairEvents ==
    { e \in Events :
        /\ e.headers["soju-username"] \in {undefined, <<"a", "l">>, <<"b", "o">>}
        /\ e.headers["content-type"] \in {undefined, MIME_image_png, MIME_text_plain}
        /\ e.headers["content-disposition"] \in
             {undefined, <<"i", "n", "l", "i", "n", "e">>, FILENAME_TOKEN \o <<"a", ".", "b", ".", "c", "\"">>}
        /\ e.body \in {undefinedObject, [chars |-> 8, pad |-> 0, magic |-> "png"]}
        /\ ~e.isBase64Encoded }

NextFair ==
    \/ \E i \in live : pc[i] = "idle" /\ \E e \in FairEvents, now \in Clock : uploadEvent(i, e, now)
    \/ \E i \in live : uniqueFilenameForBucket(i)
    \/ \E i \in live : HeadObjectFound(i)
    \/ \E i \in live : HeadObjectThrows(i)
    \/ \E i \in live : PutObjectDone(i)
    \/ \E i \in live : PutObjectThrows(i)

\* every blob-store call returns or raises, and the handler takes its next step
SpecFair ==
    /\ Init
    /\ [][NextFair]_vars
    /\ WF_vars(\E i \in live : uniqueFilenameForBucket(i))
    /\ WF_vars(\E i \in live : HeadObjectFound(i) \/ HeadObjectThrows(i))
    /\ WF_vars(\E i \in live : PutObjectDone(i) \/ PutObjectThrows(i))

(***************************************************************************)
(* Two invocations of the handler on one bucket.  Each is the handler above; *)
(* the dispatcher delivers them uploads of an allowed user, 8 bytes of png   *)
(* under the same file name.                                                 *)
(***************************************************************************)
RaceEvents ==
    { e \in Events :
        /\ e.headers["soju-username"] = <<"a", "l">>
        /\ e.headers["content-type"] = MIME_image_png
        /\ e.headers["content-disposition"] = FILENAME_TOKEN \o <<"a", ".", "b", ".", "c", "\"">>
        /\ e.body = [chars |-> 8, pad |-> 0, magic |-> "png"]
        /\ ~e.isBase64Encoded }

InitRace ==
    /\ env \in [USERNAME_ALLOW_LIST : {<<"a", "l">>}, CDN_DOMAIN : CdnDomains]
    /\ bucket = [k \in {} |-> undefinedObject]
    /\ live = {1, 2}
    /\ pc = [i \in live |-> "idle"]
    /\ event = [i \in live |-> undefinedObject]
    /\ file = [i \in live |-> undefinedObject]
    /\ attemptsRemaining = [i \in live |-> 0]
    /\ frames = [i \in live |-> <<>>]
    /\ newFilename = [i \in live |-> undefined]
    /\ calls = [i \in live |-> <<>>]
    /\ response = [i \in live |-> undefinedObject]

NextRace ==
    \/ \E i \in live : pc[i] = "idle" /\ \E e \in RaceEvents, now \in Clock : uploadEvent(i, e, now)
    \/ \E i \in live : uniqueFilenameForBucket(i)
    \/ \E i \in live : HeadObjectFound(i)
    \/ \E i \in live : HeadObjectThrows(i)
    \/ \E i \in live : PutObjectDone(i)
    \/ \E i \in live : PutObjectThrows(i)

SpecRace == InitRace /\ [][NextRace]_vars

(***************************************************************************)
(* Vocabulary of the properties.                                           *)
(***************************************************************************)
\* the invocation has been given its event
Ran(i) == pc[i] # "idle"

\* positions of the existence probes and of the writes among the calls of i
Probes(i) == { k \in 1..Len(calls[i]) : calls[i][k].op = "HeadObject" }

Writes(i) == { k \in 1..Len(calls[i]) : calls[i][k].op = "PutObject" }

\* the event carries a body, of this many bytes once decoded
HasBody(e) == e.body # undefinedObject

DecodedSize(e) == decodeBody(e).byteLength

\* the event reaches the steps after the body and size gates
PastSizeGate(e) == HasBody(e) /\ DecodedSize(e) <= MAX_FILE_SIZE

\* name is one of the comma-separated elements of list
ListElement(list, name) ==
    /\ \A k \in 1..Len(name) : name[k] # ","
    /\ \E p \in 0..(Len(list) - Len(name)) :
         /\ SubSeq(list, p + 1, p + Len(name)) = name
         /\ p = 0 \/ list[p] = ","
         /\ p + Len(name) = Len(list) \/ list[p + Len(name) + 1] = ","

\* the configured allow-list: USERNAME_ALLOW_LIST, the empty string when unset
ConfiguredList == IF env.USERNAME_ALLOW_LIST = undefined THEN <<>> ELSE env.USERNAME_ALLOW_LIST

\* the header is there and holds a filename=" token; the value the token quotes
HasFilenameToken(disposition) ==
    disposition # undefined /\ FirstOccurrence(disposition, FILENAME_TOKEN) # 0

QuotedFilename(disposition) ==
    LET p == FirstOccurrence(disposition, FILENAME_TOKEN)
        rest == SubSeq(disposition, p + Len(FILENAME_TOKEN), Len(disposition))
        q == FirstOccurrence(rest, <<"\"">>)
    IN  IF q = 0 THEN rest ELSE SubSeq(rest, 1, q - 1)

\* s starts with prefix
StartsWith(s, prefix) == Len(s) >= Len(prefix) /\ SubSeq(s, 1, Len(prefix)) = prefix

\* 8 lowercase hex characters
IsHex8(s) == Len(s) = 8 /\ \A k \in 1..8 : \E d \in 1..16 : s[k] = HEX_DIGITS[d]

\* key is <stem>-<8 hex>.<ext> for a name with a '.', <name>-<8 hex> for one without
WellFormedKey(filename, key) ==
    LET dots == { k \in 1..Len(filename) : filename[k] = "." }
        last == CHOOSE k \in dots : \A j \in dots : j <= k
        stem == IF dots = {} THEN filename ELSE SubSeq(filename, 1, last - 1)
        ext == SubSeq(filename, last + 1, Len(filename))
        tail == SubSeq(key, Len(stem) + 1, Len(key))
    IN  /\ StartsWith(key, stem \o <<"-">>)
        /\ IsHex8(SubSeq(tail, 2, 9))
        /\ SubSeq(tail, 10, Len(tail)) = IF dots = {} THEN <<>> ELSE <<".">> \o ext

\* the soju-username header names a user (it is not empty) of the allow-list
AuthorizedUser(e) ==
    /\ e.headers["soju-username"] \notin {undefined, <<>>}
    /\ ListElement(ConfiguredList, e.headers["soju-username"])

\* the soju-username header is there and is an element of the allow-list
Authorized(e) ==
    /\ e.headers["soju-username"] # undefined
    /\ ListElement(ConfiguredList, e.headers["soju-username"])

\* the type the request resolves to: the sniffed type, or application/octet-stream
\* when there is none, for an absent or generic content-type header; the header otherwise
ExpectedType(e) ==
    LET declared == e.headers["content-type"]
        sniffed == fileTypeFromBuffer(decodeBody(e))
    IN  IF declared \in {undefined, OCTET_STREAM, FORM_URLENCODED}
        THEN (IF sniffed = undefinedObject THEN OCTET_STREAM ELSE sniffed.mime)
        ELSE declared

\* the request passed every gate: key allocation has begun
Accepted(i) == pc[i] \in {"allocate", "head", "put"} \/ calls[i] # <<>>

\* the invocation has answered with this status
Answers(i, statusCode) == response[i] # undefinedObject /\ response[i].statusCode = statusCode

(***************************************************************************)
(* Properties.                                                             *)
(***************************************************************************)
\* C1: when the existence probe reports the candidate occupied on each of the 3
\* attempts, no PutObject is issued and the handler answers 500 with the error
\* "Could not generate a unique filename".
C1_ExhaustionFailsWithoutWrite ==
    \A i \in live :
      (Cardinality({ k \in Probes(i) : calls[i][k].result = "exists" }) = 3) =>
        /\ Writes(i) = {}
        /\ pc[i] = "done" =>
             response[i] = ApplicationError("Could not generate a unique filename")

C3_CandidateKeyFormat ==
    \A i \in live : \A k \in 1..Len(frames[i]) :
      WellFormedKey(file[i].filename, frames[i][k])

\* C4: file name resolution never fails: past the size gate a file record is
\* built, named by the quoted value when the content-disposition header holds
\* a filename=" token and upload-<millis>.<extension> in every other case, and
\* the response is not an application error.
C4_FilenameAlwaysResolved ==
    \A i \in live :
      (Ran(i) /\ PastSizeGate(event[i])) =>
        /\ file[i] # undefinedObject
        /\ LET disposition == event[i].headers["content-disposition"] IN
           IF HasFilenameToken(disposition)
           THEN file[i].filename = QuotedFilename(disposition)
           ELSE \E now \in Clock :
                  StartsWith(file[i].filename, UPLOAD_PREFIX \o NumberToString(now) \o <<".">>)
        /\ response[i] # undefinedObject /\ calls[i] = <<>> =>
             response[i].statusCode \in {400, 403}

\* C5: with USERNAME_ALLOW_LIST unset or empty no request is allowed: no probe,
\* no write, no 201, whatever the soju-username header.
C5_EmptyAllowListAllowsNothing ==
    (env.USERNAME_ALLOW_LIST \in {undefined, <<>>}) =>
      \A i \in live :
        /\ calls[i] = <<>>
        /\ pc[i] \in {"idle", "done"}
        /\ response[i] # undefinedObject => response[i].statusCode # 201

\* C6: every file record has non-empty content: a body that is absent or decodes
\* to zero bytes is answered 400 'ERR: Missing body' before the record is built,
\* and no PutObject carries a zero-length Body.
C6_ContentNeverEmpty ==
    \A i \in live :
      /\ file[i] # undefinedObject => file[i].content.byteLength > 0
      /\ (Ran(i) /\ (~HasBody(event[i]) \/ DecodedSize(event[i]) = 0)) =>
           response[i] = Reply(400, "ERR: Missing body", <<>>, "")
      /\ \A k \in Writes(i) : calls[i][k].Body.byteLength > 0

\* C7: a probe that fails with an exception other than 'not found' is not taken
\* for a free key: no write follows and the handler answers 500.
C7_ProbeErrorIsSurfaced ==
    \A i \in live :
      (\E k \in Probes(i) : calls[i][k].result = "AccessDenied") =>
        /\ Writes(i) = {}
        /\ pc[i] = "done"
        /\ response[i].statusCode = 500

\* C8: a body that decodes to more than 50 MiB is answered 413 'ERR: File too
\* large' with no blob-store call, whatever the other headers; a body of exactly
\* 50 MiB is not answered 413.
C8_SizeGate ==
    \A i \in live :
      (Ran(i) /\ HasBody(event[i])) =>
        /\ DecodedSize(event[i]) > 50 * 1024 * 1024 =>
             /\ response[i] = Reply(413, "ERR: File too large", <<>>, "")
             /\ calls[i] = <<>>
        /\ DecodedSize(event[i]) = 50 * 1024 * 1024 => ~Answers(i, 413)

\* C8 witness: a base64 body one byte over the limit, without username, with a
\* content-disposition that has no file name, answered 413
C8_Witness ==
    \E i \in live :
      /\ Ran(i) /\ HasBody(event[i])
      /\ event[i].isBase64Encoded
      /\ DecodedSize(event[i]) = 50 * 1024 * 1024 + 1
      /\ event[i].headers["soju-username"] = undefined
      /\ event[i].headers["content-disposition"] = <<"i", "n", "l", "i", "n", "e">>
      /\ Answers(i, 413)

\* C9: the resolved content type is the sniffed type (application/octet-stream
\* when sniffing is inconclusive) for an absent or generic header and the header
\* otherwise; gate and stored ContentType use it: an authorized octet-stream
\* request that sniffs to image/png is accepted iff image/png is allowed and is
\* stored as image/png, and an inconclusive sniff is answered 400.
C9_ResolvedTypeDecides ==
    \A i \in live :
      (Ran(i) /\ PastSizeGate(event[i])) =>
        LET e == event[i]
            sniffed == fileTypeFromBuffer(decodeBody(e))
        IN  /\ file[i] # undefinedObject => file[i].contentType = ExpectedType(e)
            /\ \A k \in Writes(i) : calls[i][k].ContentType = ExpectedType(e)
            /\ (AuthorizedUser(e) /\ e.headers["content-type"] = OCTET_STREAM
                  /\ sniffed # undefinedObject /\ sniffed.mime = MIME_image_png) =>
                 (Accepted(i) <=> MIME_image_png \in ALLOWED_MIME_TYPES)
            /\ (AuthorizedUser(e) /\ e.headers["content-type"] = OCTET_STREAM
                  /\ sniffed = undefinedObject) =>
                 response[i] = Reply(400, "ERR: Content type ", OCTET_STREAM, " is not allowed")

C11_CreatedIffWritten ==
    \A i \in live :
      /\ Answers(i, 201) <=> \E k \in Writes(i) : calls[i][k].result = "ok"
      /\ Answers(i, 201) =>
           LET key == calls[i][Len(calls[i])].Key
               host == IF env.CDN_DOMAIN \in {undefined, <<>>}
                       THEN ExistingStorageName \o S3_DOMAIN
                       ELSE env.CDN_DOMAIN
               url == HTTPS \o host \o <<"/">> \o key
           IN  /\ calls[i][Len(calls[i])].op = "PutObject"
               /\ response[i].body = [text |-> "SUCCESS: ", arg |-> url, tail |-> ""]
               /\ response[i].headers = [location |-> url]

\* C11 witness: a 201 whose url is on the bucket's own domain because CDN_DOMAIN
\* is the empty string
C11_Witness ==
    \E i \in live :
      /\ Answers(i, 201)
      /\ env.CDN_DOMAIN = <<>>
      /\ StartsWith(response[i].headers.location, HTTPS \o ExistingStorageName \o S3_DOMAIN \o <<"/">>)

\* C12: when PutObject raises an exception the handler answers 500 with body
\* 'ERR: Application error: <the exception's message>', without a location
\* header, and issues no second PutObject.
C12_WriteFailureIsSurfaced ==
    \A i \in live : \A k \in Writes(i) :
      (calls[i][k].result \notin {"pending", "ok"}) =>
        /\ pc[i] = "done"
        /\ response[i].statusCode = 500
        /\ response[i].body = [text |-> "ERR: Application error: ", arg |-> <<>>, tail |-> calls[i][k].message]
        /\ calls[i][k].message # ""
        /\ response[i].headers = undefinedObject
        /\ Writes(i) = {k} /\ k = Len(calls[i])
        /\ \A key \in DOMAIN bucket : bucket[key] = undefinedObject \/ bucket[key].by # i

\* C12 witness: a PutObject that raised SlowDown, answered 500
C12_Witness ==
    \E i \in live : \E k \in Writes(i) :
      /\ calls[i][k].result = "SlowDown"
      /\ Answers(i, 500)

WriteAfterFreeProbe(i) ==
    { k \in Writes(i) : k > 1 /\ calls[i][k - 1].op = "HeadObject" /\ calls[i][k - 1].result = "NotFound" }

\* j has stored an object under key
Stored(j, key) == \E k \in Writes(j) : calls[j][k].Key = key /\ calls[j][k].result = "ok"

\* C13: a write that follows a probe which reported its key free goes to that
\* key, and replaces an object only when another invocation stored that object
\* between the probe and the write: from the probe to the write the key gets an
\* object only by the completed PutObject of another invocation.
C13_OverwriteNeedsOverlap ==
    /\ [](\A i \in live : \A k \in WriteAfterFreeProbe(i) :
            LET key == calls[i][k].Key IN
            /\ key = calls[i][k - 1].Key
            /\ (calls[i][k].result = "pending" /\ Holds(key)) =>
                 (bucket[key].by \in live \ {i} /\ Stored(bucket[key].by, key))
            /\ (calls[i][k].result = "ok" /\ calls[i][k].replaced # -1) =>
                 (calls[i][k].replaced \in live \ {i} /\ Stored(calls[i][k].replaced, key)))
    /\ [][\A i \in live : \A k \in WriteAfterFreeProbe(i) :
            LET key == calls[i][k].Key IN
            (calls[i][k].result = "pending" /\ ~Holds(key) /\ bucket'[key] # undefinedObject) =>
              \/ calls'[i][k].result = "ok"
              \/ \E j \in live \ {i} : ~Stored(j, key) /\ Stored(j, key)']_vars

\* C13 witness: both invocations probed the same key, both probes answered
\* NotFound, both wrote that key and answered 201 with the same url, and the
\* later write replaced the object of the earlier
C13_Witness ==
    \E i, j \in live :
      /\ i # j
      /\ Len(calls[i]) = 2 /\ Len(calls[j]) = 2
      /\ calls[i][1].result = "NotFound" /\ calls[j][1].result = "NotFound"
      /\ calls[i][1].Key = calls[j][1].Key
      /\ calls[i][2].Key = calls[i][1].Key /\ calls[j][2].Key = calls[i][1].Key
      /\ calls[i][2].result = "ok" /\ calls[j][2].result = "ok"
      /\ calls[i][2].replaced = -1 /\ calls[j][2].replaced = i
      /\ bucket[calls[i][1].Key].by = j
      /\ Answers(i, 201) /\ Answers(j, 201)
      /\ response[i] = response[j]

\* at most 3 probes, all before the write, each sent after the previous call was
\* answered, each on a candidate drawn for the file name, none after a probe that
\* did not find an object; the key returned and written is that of the last probe
C15_ProbesBounded ==
    \A i \in live :
      LET last == Cardinality(Probes(i)) IN
      /\ last <= 3
      /\ Probes(i) = 1..last
      /\ \A k \in 1..Len(calls[i]) : calls[i][k].result = "pending" => k = Len(calls[i])
      /\ \A k \in Probes(i) :
           /\ \E bytes \in randomBytes(4) :
                calls[i][k].Key = filenameWithRandomSuffix(file[i].filename, bytes)
           /\ k < last => calls[i][k].result = "exists"
      /\ newFilename[i] # undefined => (last >= 1 /\ newFilename[i] = calls[i][last].Key)
      /\ \A k \in Writes(i) : calls[i][k].Key = newFilename[i]
      /\ pc[i] = "done" <=> response[i] # undefinedObject

\* C15: every invocation that was given its event ends with one response, which
\* then stays; uniqueFilenameForBucket sends at most 3 probes, each after the
\* previous one was answered, each on a candidate drawn for the file name, none
\* after a probe that did not find an object, and the key it returns is the
\* key of its last probe.
C15_BoundedRetryAndTermination ==
    /\ []C15_ProbesBounded
    /\ [][\A i \in live : response[i] # undefinedObject =>
            (response'[i] = response[i] /\ calls'[i] = calls[i])]_vars
    /\ (\A i \in live : Ran(i)) ~> (\A i \in live : pc[i] = "done" /\ response[i] # undefinedObject)

\* C15 witness: an invocation that sent 3 probes, each of which found an object,
\* got the key of the third back and answered
C15_Witness ==
    \E i \in live :
      /\ Cardinality(Probes(i)) = 3
      /\ calls[i][3].result = "exists"
      /\ newFilename[i] = calls[i][3].Key
      /\ pc[i] = "done"

====
